---- MODULE Spec2Model ----
(***************************************************************************)
(* The Labeling flow of pipelines/labeling.py: start -> label -> end.      *)
(*                                                                         *)
(* Python strings that the code takes apart (the two URIs, the object key) *)
(* are tuples of one-character strings, so that startswith, split, join    *)
(* and strftime are computed character by character.  Values the code only *)
(* copies or compares (event ids, predictions) are TLA+ strings.           *)
(***************************************************************************)
EXTENDS Integers, Sequences, FiniteSets, TLC

\* Largest number of rows of the table load_unlabeled_collected_data returns.
MaxRows == 2
\* random.random() returns k / Resolution for k in 0 .. Resolution-1, a value
\* of [0, 1); ground_truth_quality is a number of the same unit.
Resolution == 5

VARIABLES
    datastore_uri,          \* Parameter "datastore-uri"
    ground_truth_uri,       \* Parameter "ground-truth-uri" (None when not given)
    ground_truth_quality,   \* Parameter "ground-truth-quality", in 1/Resolution
    pc,                     \* position of the flow
    error,                  \* the exception that ended the flow, "" if none
    s3_client,              \* TRUE once boto3.client("s3") has been created
    load_calls,             \* calls of load_unlabeled_collected_data, in order
    data,                   \* the table load_unlabeled_collected_data returned
    groups,                 \* data.groupby("event_id"), in iteration order
    g,                      \* index of the group the outer loop is at
    predictions,            \* the list built by the inner loop
    records,                \* the list of serialized records
    label_of,               \* history: row index -> the prediction produced for it
    ground_truth_payload,   \* the lines of the payload (unassigned: no line)
    upload_time,            \* datetime.now(tz=utc) at line 135 (unassigned: NoTime)
    uri,                    \* the object key built at lines 136-139, or None
    put_calls               \* the put_object calls issued, in order

vars == <<datastore_uri, ground_truth_uri, ground_truth_quality, pc, error,
          s3_client, load_calls, data, groups, g, predictions, records,
          label_of, ground_truth_payload, upload_time, uri, put_calls>>

-----------------------------------------------------------------------------
(* Python values *)

\* None, as a value of a string-valued variable: no tuple of characters.
None == <<"None">>

\* The value of upload_time before line 135 assigns it.
NoTime == [year |-> 0, month |-> 0, day |-> 0, hour |-> 0, minute |-> 0, second |-> 0]

\* A missing event_id in the table (None / NaN in the pandas column).
NA == "<NA>"

\* Python truthiness of an optional string: None and "" are falsy.
Truthy(s) == s # None /\ s # <<>>

\* str.startswith
startswith(s, prefix) ==
    /\ Len(s) >= Len(prefix)
    /\ SubSeq(s, 1, Len(prefix)) = prefix

\* str.split(sep) for a one-character separator: empty parts are kept.
RECURSIVE split(_, _)
split(s, sep) ==
    IF \A i \in 1..Len(s) : s[i] # sep
    THEN <<s>>
    ELSE LET i == CHOOSE k \in 1..Len(s) :
                      s[k] = sep /\ \A j \in 1..(k - 1) : s[j] # sep
         IN  <<SubSeq(s, 1, i - 1)>> \o split(SubSeq(s, i + 1, Len(s)), sep)

\* sep.join(parts)
RECURSIVE join(_, _)
join(sep, parts) ==
    IF parts = <<>> THEN <<>>
    ELSE IF Len(parts) = 1 THEN parts[1]
    ELSE parts[1] \o <<sep>> \o join(sep, Tail(parts))

\* parts[n:] for a 0-based n
slice_from(parts, n) ==
    IF Len(parts) <= n THEN <<>> ELSE SubSeq(parts, n + 1, Len(parts))

Digits == <<"0", "1", "2", "3", "4", "5", "6", "7", "8", "9">>

\* a number as `width` decimal digits, zero-padded (strftime's %m %d %H %M %S, %Y)
RECURSIVE zero_padded(_, _)
zero_padded(n, width) ==
    IF width = 0 THEN <<>>
    ELSE zero_padded(n \div 10, width - 1) \o <<Digits[(n % 10) + 1]>>

\* f"{upload_time:%Y/%m/%d/%H/%M%S}.jsonl"
format_upload_time(t) ==
    zero_padded(t.year, 4) \o <<"/">> \o zero_padded(t.month, 2) \o <<"/">>
    \o zero_padded(t.day, 2) \o <<"/">> \o zero_padded(t.hour, 2) \o <<"/">>
    \o zero_padded(t.minute, 2) \o zero_padded(t.second, 2)
    \o <<".", "j", "s", "o", "n", "l">>

-----------------------------------------------------------------------------
(* The inputs *)

S3Scheme     == <<"s", "3", ":", "/", "/">>
SqliteScheme == <<"s", "q", "l", "i", "t", "e", ":", "/", "/">>

\* --datastore-uri: s3://d/c, sqlite:///d, file:///d, d
DatastoreUris ==
    { S3Scheme \o <<"d", "/", "c">>,
      SqliteScheme \o <<"/", "d">>,
      <<"f", "i", "l", "e", ":", "/", "/", "/", "d">>,
      <<"d">> }

\* --ground-truth-uri: not given, "", s3://b, s3://b/p, s3://b/p/, s3://b/p/q,
\* and b/p (a location written without its scheme)
GroundTruthUris ==
    { None,
      <<>>,
      S3Scheme \o <<"b">>,
      S3Scheme \o <<"b", "/", "p">>,
      S3Scheme \o <<"b", "/", "p", "/">>,
      S3Scheme \o <<"b", "/", "p", "/", "q">>,
      <<"b", "/", "p">> }

\* --ground-truth-quality: 0.0, the default 0.8, 1.0
Qualities == {0, (4 * Resolution) \div 5, Resolution}

\* The event ids of the collected data, in their sort order.
EventIds == <<"a", "b">>

\* The label universe of line 114, in the order random.choice indexes it.
Labels == <<"Adelie", "Chinstrap", "Gentoo">>

\* The predictions of the collected data: one label of the universe and one
\* value outside it.
Predictions == {"Adelie", "Other"}

Rows == [event_id : {EventIds[i] : i \in DOMAIN EventIds} \cup {NA},
         prediction : Predictions]

\* What load_unlabeled_collected_data can return: a table of 0 .. MaxRows rows.
Tables == UNION {[1..n -> Rows] : n \in 0..MaxRows}

\* datetime.now(tz=timezone.utc)
UploadTimes ==
    { [year |-> 2024, month |-> 1, day |-> 5, hour |-> 3, minute |-> 7, second |-> 9],
      [year |-> 2025, month |-> 12, day |-> 31, hour |-> 23, minute |-> 59, second |-> 58] }

\* random.random(), in 1/Resolution
RandomValues == 0..(Resolution - 1)

-----------------------------------------------------------------------------
(* _label_sagemaker_data, the pure parts *)

\* is_s3 with the prefix cut short to "s"
is_s3_short_prefix(u) == startswith(u, <<"s">>)

\* self.datastore_uri.startswith("s3://")
is_s3(u) == startswith(u, S3Scheme)

\* is_sqlite as a plain else: every other location is taken for SQLite
is_sqlite_else(u) == TRUE

\* self.datastore_uri.startswith("sqlite://")
is_sqlite(u) == startswith(u, SqliteScheme)

\* ground_truth_uri_missing as `self.ground_truth_uri is None`
ground_truth_uri_is_none(u) == u = None

\* not self.ground_truth_uri
ground_truth_uri_missing(u) == ~Truthy(u)

\* empty as `data is None`: a table is never None
empty_is_none(d) == FALSE

\* data.empty
empty(d) == Len(d) = 0

\* group_rows with the rows of the group in reverse order
group_rows_reversed(d, k) ==
    LET rows == SelectSeq([i \in 1..Len(d) |-> i], LAMBDA i : d[i].event_id = k)
    IN  [j \in 1..Len(rows) |-> rows[Len(rows) + 1 - j]]

\* The rows of one group: the indices of the rows of d whose event_id is k,
\* in the order of d (groupby keeps the order of the rows within a group).
group_rows(d, k) ==
    SelectSeq([i \in 1..Len(d) |-> i], LAMBDA i : d[i].event_id = k)

\* groupby as a loop over the rows: one group per row that has an event_id
groupby_each_row(d) ==
    LET rows == SelectSeq([i \in 1..Len(d) |-> i], LAMBDA i : d[i].event_id # NA)
    IN  [n \in 1..Len(rows) |-> [event_id |-> d[rows[n]].event_id, rows |-> <<rows[n]>>]]

\* data.groupby("event_id"): one (key, group) per distinct event_id, the keys
\* in sorted order (sort=True), rows without an event_id left out (dropna=True).
groupby(d) ==
    LET present == {d[i].event_id : i \in 1..Len(d)} \ {NA}
        keys    == SelectSeq(EventIds, LAMBDA k : k \in present)
    IN  [n \in 1..Len(keys) |-> [event_id |-> keys[n], rows |-> group_rows(d, keys[n])]]

\* label with the comparison turned round
label_greater(prediction, quality, r, c) ==
    IF r > quality THEN prediction ELSE Labels[c]

\* label with <= for <
label_at_most(prediction, quality, r, c) ==
    IF r <= quality THEN prediction ELSE Labels[c]

\* row["prediction"] if random.random() < self.ground_truth_quality
\*                   else random.choice(["Adelie", "Chinstrap", "Gentoo"])
\* with r the value random.random() returned and c the index random.choice drew.
label(prediction, quality, r, c) ==
    IF r < quality THEN prediction ELSE Labels[c]

\* The record of lines 117-130; json.dumps writes it as one line.
record(event_id, preds) ==
    [groundTruthData |-> [data |-> preds, encoding |-> "CSV"],
     eventMetadata   |-> [eventId |-> event_id],
     eventVersion    |-> "0"]

\* "/".join(self.ground_truth_uri.split("/")[3:]) + f"{upload_time:...}.jsonl"
object_key(gt, t) ==
    join("/", slice_from(split(gt, "/"), 3)) \o format_upload_time(t)

\* has_bucket with the index off by one
has_bucket_and_prefix(gt) == Len(split(gt, "/")) >= 4

\* self.ground_truth_uri.split("/")[2] raises IndexError on fewer than 3 parts
has_bucket(gt) == Len(split(gt, "/")) >= 3

bucket(gt) == split(gt, "/")[3]

-----------------------------------------------------------------------------
(* The flow *)

Init ==
    /\ datastore_uri \in DatastoreUris
    /\ ground_truth_uri \in GroundTruthUris
    /\ ground_truth_quality \in Qualities
    /\ pc = "start"
    /\ error = ""
    /\ s3_client = FALSE
    /\ load_calls = <<>>
    /\ data = <<>>
    /\ groups = <<>>
    /\ g = 0
    /\ predictions = <<>>
    /\ records = <<>>
    /\ label_of = <<>>
    /\ ground_truth_payload = <<>>
    /\ upload_time = NoTime
    /\ uri = None
    /\ put_calls = <<>>

\* start: self.next(self.label)
start ==
    /\ pc = "start"
    /\ pc' = "label"
    /\ UNCHANGED <<datastore_uri, ground_truth_uri, ground_truth_quality, error,
                   s3_client, load_calls, data, groups, g, predictions, records,
                   label_of, ground_truth_payload, upload_time, uri, put_calls>>

\* label, the else branch: raise ValueError
label_invalid_datastore ==
    /\ pc = "label"
    /\ ~is_s3(datastore_uri)
    /\ ~is_sqlite(datastore_uri)
    /\ pc' = "failed"
    /\ error' = "ValueError"
    /\ UNCHANGED <<datastore_uri, ground_truth_uri, ground_truth_quality,
                   s3_client, load_calls, data, groups, g, predictions, records,
                   label_of, ground_truth_payload, upload_time, uri, put_calls>>

\* label, the sqlite branch: pass
label_sqlite ==
    /\ pc = "label"
    /\ ~is_s3(datastore_uri)
    /\ is_sqlite(datastore_uri)
    /\ pc' = "returned"
    /\ UNCHANGED <<datastore_uri, ground_truth_uri, ground_truth_quality, error,
                   s3_client, load_calls, data, groups, g, predictions, records,
                   label_of, ground_truth_payload, upload_time, uri, put_calls>>

\* _label_sagemaker_data, lines 91-93: raise RuntimeError
require_ground_truth_uri ==
    /\ pc = "label"
    /\ is_s3(datastore_uri)
    /\ ground_truth_uri_missing(ground_truth_uri)
    /\ pc' = "failed"
    /\ error' = "RuntimeError"
    /\ UNCHANGED <<datastore_uri, ground_truth_uri, ground_truth_quality,
                   s3_client, load_calls, data, groups, g, predictions, records,
                   label_of, ground_truth_payload, upload_time, uri, put_calls>>

\* _label_sagemaker_data, line 95: s3_client = boto3.client("s3")
create_client ==
    /\ pc = "label"
    /\ is_s3(datastore_uri)
    /\ ~ground_truth_uri_missing(ground_truth_uri)
    /\ s3_client' = TRUE
    /\ pc' = "load"
    /\ UNCHANGED <<datastore_uri, ground_truth_uri, ground_truth_quality, error,
                   load_calls, data, groups, g, predictions, records,
                   label_of, ground_truth_payload, upload_time, uri, put_calls>>

\* lines 97-101: data = load_unlabeled_collected_data(s3_client, ...)
load_unlabeled_collected_data ==
    /\ pc = "load"
    /\ \E table \in Tables : data' = table
    /\ load_calls' = Append(load_calls, <<s3_client, datastore_uri, ground_truth_uri>>)
    /\ pc' = "loaded"
    /\ UNCHANGED <<datastore_uri, ground_truth_uri, ground_truth_quality, error,
                   s3_client, groups, g, predictions, records,
                   label_of, ground_truth_payload, upload_time, uri, put_calls>>

\* lines 103-104: if data.empty: return
return_empty ==
    /\ pc = "loaded"
    /\ empty(data)
    /\ pc' = "returned"
    /\ UNCHANGED <<datastore_uri, ground_truth_uri, ground_truth_quality, error,
                   s3_client, load_calls, data, groups, g, predictions, records,
                   label_of, ground_truth_payload, upload_time, uri, put_calls>>

\* lines 106-109: records = []; the outer loop starts on the first group
group_by_event_id ==
    /\ pc = "loaded"
    /\ ~empty(data)
    /\ groups' = groupby(data)
    /\ g' = 1
    /\ records' = <<>>
    /\ predictions' = <<>>
    /\ label_of' = [i \in 1..Len(data) |-> ""]
    /\ pc' = "groups"
    /\ UNCHANGED <<datastore_uri, ground_truth_uri, ground_truth_quality, error,
                   s3_client, load_calls, data,
                   ground_truth_payload, upload_time, uri, put_calls>>

\* lines 110-115: one pass of the inner loop
label_row ==
    /\ pc = "groups"
    /\ g <= Len(groups)
    /\ Len(predictions) < Len(groups[g].rows)
    /\ LET i == groups[g].rows[Len(predictions) + 1]
       IN  \E r \in RandomValues, c \in DOMAIN Labels :
               LET p == label(data[i].prediction, ground_truth_quality, r, c)
               IN  /\ predictions' = Append(predictions, p)
                   /\ label_of' = [label_of EXCEPT ![i] = p]
    /\ UNCHANGED <<datastore_uri, ground_truth_uri, ground_truth_quality, pc, error,
                   s3_client, load_calls, data, groups, g, records,
                   ground_truth_payload, upload_time, uri, put_calls>>

\* lines 117-132: records.append(json.dumps(record)); next group
append_record ==
    /\ pc = "groups"
    /\ g <= Len(groups)
    /\ Len(predictions) = Len(groups[g].rows)
    /\ records' = Append(records, record(groups[g].event_id, predictions))
    /\ g' = g + 1
    /\ predictions' = <<>>
    /\ UNCHANGED <<datastore_uri, ground_truth_uri, ground_truth_quality, pc, error,
                   s3_client, load_calls, data, groups, label_of,
                   ground_truth_payload, upload_time, uri, put_calls>>

\* lines 134-139: the payload ("\n".join(records): one line per record), the
\* upload time and the key
build_payload ==
    /\ pc = "groups"
    /\ g > Len(groups)
    /\ ground_truth_payload' = records
    /\ \E t \in UploadTimes :
           /\ upload_time' = t
           /\ uri' = object_key(ground_truth_uri, t)
    /\ pc' = "upload"
    /\ UNCHANGED <<datastore_uri, ground_truth_uri, ground_truth_quality, error,
                   s3_client, load_calls, data, groups, g, predictions, records,
                   label_of, put_calls>>

\* lines 141-145: s3_client.put_object(Body=..., Bucket=..., Key=uri); the
\* Bucket argument raises IndexError before the call when the URI has no
\* third part
put_object ==
    /\ pc = "upload"
    /\ IF has_bucket(ground_truth_uri)
       THEN /\ put_calls' = Append(put_calls,
                                   [Body   |-> ground_truth_payload,
                                    Bucket |-> bucket(ground_truth_uri),
                                    Key    |-> uri])
            /\ pc' = "returned"
            /\ UNCHANGED error
       ELSE /\ pc' = "failed"
            /\ error' = "IndexError"
            /\ UNCHANGED put_calls
    /\ UNCHANGED <<datastore_uri, ground_truth_uri, ground_truth_quality,
                   s3_client, load_calls, data, groups, g, predictions, records,
                   label_of, ground_truth_payload, upload_time, uri>>

\* label, line 78: self.next(self.end)
next_end ==
    /\ pc = "returned"
    /\ pc' = "end"
    /\ UNCHANGED <<datastore_uri, ground_truth_uri, ground_truth_quality, error,
                   s3_client, load_calls, data, groups, g, predictions, records,
                   label_of, ground_truth_payload, upload_time, uri, put_calls>>

\* end: pass
end ==
    /\ pc = "end"
    /\ pc' = "done"
    /\ UNCHANGED <<datastore_uri, ground_truth_uri, ground_truth_quality, error,
                   s3_client, load_calls, data, groups, g, predictions, records,
                   label_of, ground_truth_payload, upload_time, uri, put_calls>>

Next ==
    \/ start
    \/ label_invalid_datastore
    \/ label_sqlite
    \/ require_ground_truth_uri
    \/ create_client
    \/ load_unlabeled_collected_data
    \/ return_empty
    \/ group_by_event_id
    \/ label_row
    \/ append_record
    \/ build_payload
    \/ put_object
    \/ next_end
    \/ end

Spec == Init /\ [][Next]_vars

-----------------------------------------------------------------------------
(* Vocabulary of the properties, written without the operators above *)

LabelSet == {"Adelie", "Chinstrap", "Gentoo"}

\* the distinct event_id values of a table (a missing event_id is no value)
EventIdsOf(d) == {d[i].event_id : i \in 1..Len(d)} \ {NA}

\* the indices of the rows of d with event_id k, in the order received
RowsOf(d, k) == SelectSeq([i \in 1..Len(d) |-> i], LAMBDA i : d[i].event_id = k)

\* the number of '/' in a string
RECURSIVE Slashes(_)
Slashes(s) == IF s = <<>> THEN 0
              ELSE (IF Head(s) = "/" THEN 1 ELSE 0) + Slashes(Tail(s))

GroundTruthPresent == ground_truth_uri # None /\ ground_truth_uri # <<>>
DatastoreIsS3      == startswith(datastore_uri, <<"s", "3", ":", "/", "/">>)
DatastoreIsSqlite  ==
    startswith(datastore_uri, <<"s", "q", "l", "i", "t", "e", ":", "/", "/">>)

\* every payload there is: the one built at line 134 (the key is built right
\* after it), and the Body of every put_object
Payloads ==
    (IF uri = None THEN {} ELSE {ground_truth_payload})
    \cup {put_calls[n].Body : n \in 1..Len(put_calls)}

\* every list of predictions there is: the one being built for group g (whose
\* j-th entry is for the j-th row of that group) and those of the records
PredictionLists ==
    {<<records[n].eventMetadata.eventId, records[n].groundTruthData.data>> :
        n \in 1..Len(records)}
    \cup UNION {{<<p[m].eventMetadata.eventId, p[m].groundTruthData.data>> :
                    m \in 1..Len(p)} : p \in Payloads}
    \cup (IF pc = "groups" /\ g <= Len(groups)
          THEN {<<groups[g].event_id, predictions>>} ELSE {})

-----------------------------------------------------------------------------
(* C1 *)

\* C1: a payload built from a non-empty table holds exactly one record per
\* distinct event_id value of the table: as many records as distinct values,
\* and the eventIds of the records are those values, each once.
OneRecordPerEventId ==
    \A p \in Payloads :
        /\ Len(p) = Cardinality(EventIdsOf(data))
        /\ {p[n].eventMetadata.eventId : n \in 1..Len(p)} = EventIdsOf(data)
        /\ \A m, n \in 1..Len(p) :
               p[m].eventMetadata.eventId = p[n].eventMetadata.eventId => m = n

\* a payload of one record was put, from two rows that share an event_id
WitnessOneRecordPerEventId ==
    /\ Len(put_calls) = 1
    /\ Len(put_calls[1].Body) = 1
    /\ Len(data) = 2
    /\ data[1].event_id = data[2].event_id
    /\ data[1].event_id # NA

(* C2 *)

\* C2: the predictions of a record are as many as the rows of the table with
\* the record's event_id, and the j-th of them is the prediction produced for
\* the j-th such row in the order the rows were received (the row's own
\* prediction or a label of the universe).
PredictionsFollowRows ==
    \A rec \in {records[n] : n \in 1..Len(records)}
               \cup UNION {{p[n] : n \in 1..Len(p)} : p \in Payloads} :
        LET rows  == RowsOf(data, rec.eventMetadata.eventId)
            preds == rec.groundTruthData.data
        IN  /\ Len(preds) = Len(rows)
            /\ \A j \in 1..Len(preds) :
                   /\ preds[j] = label_of[rows[j]]
                   /\ preds[j] \in {data[rows[j]].prediction} \cup LabelSet

\* a record of two different predictions was put, for the two rows of an
\* event
WitnessPredictionsFollowRows ==
    /\ Len(put_calls) = 1
    /\ Len(data) = 2
    /\ data[1].event_id = "b" /\ data[2].event_id = "b"
    /\ \E n \in 1..Len(put_calls[1].Body) :
           LET preds == put_calls[1].Body[n].groundTruthData.data
           IN  Len(preds) = 2 /\ preds[1] = "Other" /\ preds[2] # "Other"

(* C3 *)

\* C3: with ground_truth_quality = 1.0 every prediction emitted is the
\* original prediction of its row, inside the label universe or not.
QualityOneKeeps ==
    ground_truth_quality = Resolution =>
        \A l \in PredictionLists :
            LET rows == RowsOf(data, l[1])
            IN  \A j \in 1..Len(l[2]) : l[2][j] = data[rows[j]].prediction

\* quality 1.0, and a prediction outside the label universe was put
WitnessQualityOneKeeps ==
    /\ ground_truth_quality = Resolution
    /\ Len(put_calls) = 1
    /\ \E n \in 1..Len(put_calls[1].Body) :
           \E j \in 1..Len(put_calls[1].Body[n].groundTruthData.data) :
               put_calls[1].Body[n].groundTruthData.data[j] = "Other"

(* C4 *)

\* C4: with ground_truth_quality = 0.0 every prediction emitted is a label of
\* the universe {Adelie, Chinstrap, Gentoo}, also for a row whose original
\* prediction is not.
QualityZeroSubstitutes ==
    ground_truth_quality = 0 =>
        \A l \in PredictionLists :
            \A j \in 1..Len(l[2]) : l[2][j] \in LabelSet

\* quality 0.0, and the label of a row whose prediction was outside the
\* universe was put
WitnessQualityZeroSubstitutes ==
    /\ ground_truth_quality = 0
    /\ Len(put_calls) = 1
    /\ \E i \in 1..Len(data) :
           /\ data[i].prediction = "Other"
           /\ data[i].event_id # NA
           /\ label_of[i] \in LabelSet

(* C5 *)

\* C5: when the table loaded is empty, no record is built, no payload, no key,
\* no upload time, put_object is not called, nothing is raised, and the flow
\* goes on to end.
EmptyDataIsNoOp ==
    (load_calls # <<>> /\ Len(data) = 0) =>
        /\ groups = <<>> /\ records = <<>> /\ predictions = <<>>
        /\ ground_truth_payload = <<>> /\ uri = None /\ upload_time = NoTime
        /\ put_calls = <<>>
        /\ error = ""
        /\ pc \in {"loaded", "returned", "end", "done"}
        /\ (pc # "done" => ENABLED Next)

\* an empty table was loaded and the flow has finished
WitnessEmptyDataIsNoOp ==
    /\ Len(load_calls) = 1
    /\ Len(data) = 0
    /\ pc = "done"

(* C6 *)

\* C6: with an s3:// datastore and no ground_truth_uri (not given, or ""), the
\* label step raises RuntimeError (not the ValueError of an invalid datastore)
\* before the client is created, data is loaded or anything is put, and the
\* flow never reaches end.
MissingGroundTruthUriRaises ==
    (DatastoreIsS3 /\ ~GroundTruthPresent) =>
        /\ ~s3_client /\ load_calls = <<>> /\ put_calls = <<>>
        /\ \/ pc \in {"start", "label"} /\ error = ""
           \/ pc = "failed" /\ error = "RuntimeError"
        /\ error # "ValueError"
        /\ (pc # "failed" => ENABLED Next)

\* the flow has failed on an empty ground_truth_uri
WitnessMissingGroundTruthUriRaises ==
    /\ DatastoreIsS3
    /\ ground_truth_uri = <<>>
    /\ pc = "failed"
    /\ error = "RuntimeError"

(* C7 *)

\* C7: with a datastore_uri that starts with neither s3:// nor sqlite://, the
\* label step raises ValueError with nothing done (no client, no load, no
\* record, no key, no put_object), and the flow never reaches end, whatever
\* ground_truth_uri and ground_truth_quality are.
InvalidDatastoreRaises ==
    (~DatastoreIsS3 /\ ~DatastoreIsSqlite) =>
        /\ ~s3_client /\ load_calls = <<>> /\ put_calls = <<>>
        /\ records = <<>> /\ ground_truth_payload = <<>> /\ uri = None
        /\ \/ pc \in {"start", "label"} /\ error = ""
           \/ pc = "failed" /\ error = "ValueError"
        /\ (pc # "failed" => ENABLED Next)

\* the flow has failed on file:///d, a ground_truth_uri being given
WitnessInvalidDatastoreRaises ==
    /\ datastore_uri = <<"f", "i", "l", "e", ":", "/", "/", "/", "d">>
    /\ GroundTruthPresent
    /\ pc = "failed"
    /\ error = "ValueError"

(* C8 *)

\* s3://<bucket>/<prefix>, with or without a trailing slash on the prefix
IsBucketPrefixLocation(u) ==
    /\ startswith(u, <<"s", "3", ":", "/", "/">>)
    /\ LET rest == SubSeq(u, 6, Len(u))
       IN  \E k \in 2..(Len(rest) - 1) :
               /\ rest[k] = "/"
               /\ \A j \in 1..(k - 1) : rest[j] # "/"
               /\ rest[k + 1] # "/"

\* the <bucket> of s3://<bucket>/<prefix>
BucketOf(u) ==
    LET rest == SubSeq(u, 6, Len(u))
        k    == CHOOSE k \in 1..Len(rest) :
                    rest[k] = "/" /\ \A j \in 1..(k - 1) : rest[j] # "/"
    IN  SubSeq(rest, 1, k - 1)

\* the <prefix> of s3://<bucket>/<prefix>, without its trailing slash
PrefixOf(u) ==
    LET rest == SubSeq(u, 6, Len(u))
        k    == CHOOSE k \in 1..Len(rest) :
                    rest[k] = "/" /\ \A j \in 1..(k - 1) : rest[j] # "/"
        last == IF rest[Len(rest)] = "/" THEN Len(rest) - 1 ELSE Len(rest)
    IN  SubSeq(rest, k + 1, last)

\* C8: for a ground_truth_uri s3://<bucket>/<prefix>, with or without a
\* trailing slash, put_object is called with Bucket = <bucket> and
\* Key = <prefix>/<YYYY>/<MM>/<DD>/<HH>/<MM><SS>.jsonl of the upload time.
KeyIsPrefixSlashTime ==
    \A n \in 1..Len(put_calls) :
        IsBucketPrefixLocation(ground_truth_uri) =>
            /\ put_calls[n].Bucket = BucketOf(ground_truth_uri)
            /\ put_calls[n].Key =
                   PrefixOf(ground_truth_uri) \o <<"/">> \o format_upload_time(upload_time)

(* C9 *)

\* C9: with a sqlite:// datastore the label step produces nothing and touches
\* no storage (no client, no load, no put_object), raises nothing whether or
\* not ground_truth_uri is set, and the flow goes on to end.
SqliteIsNoOp ==
    DatastoreIsSqlite =>
        /\ ~s3_client /\ load_calls = <<>> /\ put_calls = <<>>
        /\ records = <<>> /\ ground_truth_payload = <<>> /\ uri = None
        /\ error = ""
        /\ pc \in {"start", "label", "returned", "end", "done"}
        /\ (pc # "done" => ENABLED Next)

\* the flow has finished on a sqlite:// datastore without a ground_truth_uri
WitnessSqliteIsNoOp ==
    /\ DatastoreIsSqlite
    /\ ground_truth_uri = None
    /\ pc = "done"

(* C10 *)

\* put_object is called at most once; when it has been called, the data was
\* loaded, every record of the payload was built and the flow has not yet
\* moved past it; and once the label step is over (the flow is at end, done
\* or failed) it has been called exactly once iff `condition` holds.
PutObjectOnceIff(condition) ==
    /\ Len(put_calls) <= 1
    /\ put_calls # <<>> =>
           /\ condition
           /\ Len(load_calls) = 1
           /\ Len(records) = Cardinality(EventIdsOf(data))
           /\ put_calls[1].Body = records
           /\ put_calls[1].Key = uri
           /\ pc \in {"returned", "end", "done"}
    /\ pc \in {"end", "done", "failed"} => (Len(put_calls) = 1 <=> condition)

\* C10 as stated: in a run of the flow put_object is called at most once, and
\* exactly once iff datastore_uri starts with s3://, ground_truth_uri is
\* present and the loaded data is non-empty; the call comes after the load
\* and after every record was built, and before the transition to end.
PutObjectOnceIffPresent ==
    PutObjectOnceIff(DatastoreIsS3 /\ GroundTruthPresent
                     /\ load_calls # <<>> /\ Len(data) > 0)

\* C10 as amended: ... exactly once iff datastore_uri starts with s3://,
\* ground_truth_uri is present and holds at least two '/' (so that it has a
\* bucket part, as every s3://bucket location has), and the loaded data is
\* non-empty; the rest as stated.
PutObjectOnceIffBucket ==
    PutObjectOnceIff(DatastoreIsS3 /\ GroundTruthPresent
                     /\ Slashes(ground_truth_uri) >= 2
                     /\ load_calls # <<>> /\ Len(data) > 0)

\* the flow has finished after one put_object to s3://b, whose two '/' are
\* those of the scheme
WitnessPutObjectOnceIffBucket ==
    /\ ground_truth_uri = <<"s", "3", ":", "/", "/", "b">>
    /\ Len(put_calls) = 1
    /\ put_calls[1].Bucket = <<"b">>
    /\ pc = "done"

====
